---- MODULE Spec2Model ----
(***************************************************************************)
(* Model of PacketReceiver, the byte-at-a-time packet state machine of     *)
(* 02_serial_communication.py (PATTERN 4), with the callers that drive it. *)
(*                                                                         *)
(*   Spec        any interleaving of feed(byte) and get_packets() calls    *)
(*   SpecStream  a chosen byte stream fed in order to a fresh receiver,    *)
(*               then one get_packets() call                               *)
(*   SpecTwo     two receivers whose calls are interleaved                 *)
(*   SpecCall    one call of a function of the tutorial files, run step    *)
(*               by step against its environment                           *)
(***************************************************************************)
EXTENDS Integers, Sequences, FiniteSets, TLC

VARIABLES
    state,      \* self.state   : RxState
    length,     \* self.length  : the stored length byte
    data,       \* self.data    : bytearray, the accumulator
    packets,    \* self.packets : list of bytes objects, the output queue
    exc,        \* the exception the last call raised, "none" when it returned
    out,        \* the list the last get_packets() call returned
    lastOp,     \* the last call made on the receiver
    completed,  \* history: every frame feed() has queued, in order
    drained,    \* history: concatenation of all get_packets() results
    nfed,       \* history: number of feed() calls made
    stream,     \* SpecStream: the bytes the caller feeds, in order
    cells,      \* SpecTwo: the attribute storage of the receiver instances
    hist,       \* SpecTwo: history, per instance the calls made on it
    rets,       \* SpecTwo: per instance what its last get_packets() returned
    call,       \* SpecCall: the function called and its arguments
    pc,         \* SpecCall: the position in the function's code
    loc,        \* SpecCall: the function's local variables
    ret,        \* SpecCall: the value returned or the exception raised
    env         \* SpecCall: the serial port the function talks to

rxVars == <<state, length, data, packets, exc, out, lastOp,
            completed, drained, nfed, stream>>
twoVars == <<cells, hist, rets>>
callVars == <<call, pc, loc, ret, env>>

vars == <<rxVars, twoVars, callVars>>

----------------------------------------------------------------------------
(* Bounds of the model *)

\* Spec: number of feed() calls in one behaviour
MaxFeed == 8
\* SpecStream: longest payload of an encoded frame
MaxPayload == 2
\* SpecStream: longest run of noise bytes before a frame
MaxNoise == 2
\* SpecStream: longest unstructured stream
MaxRaw == 4

(* Program constants *)

\* the sync marker, `if byte == 0xAA`
SYNC == 170
\* a byte is 8 bits wide: bytearray elements are in range(256)
ByteBits == 8

ByteRange == 0 .. (2^ByteBits - 1)

\* class RxState(Enum)
WAIT_SYNC == "WAIT_SYNC"
WAIT_LENGTH == "WAIT_LENGTH"
WAIT_DATA == "WAIT_DATA"
WAIT_CRC == "WAIT_CRC"
RxState == {WAIT_SYNC, WAIT_LENGTH, WAIT_DATA, WAIT_CRC}

----------------------------------------------------------------------------
(* Python's int ^ int on non-negative integers, bit by bit *)
RECURSIVE Xor(_, _)
Xor(a, b) ==
    IF a = 0 /\ b = 0 THEN 0
    ELSE (((a % 2) + (b % 2)) % 2) + (2 * Xor(a \div 2, b \div 2))

(* crc = 0; for b in s: crc ^= b
   ^ is associative, so the loop's result is the xor of the xors of the two
   halves of s; byte by byte the evaluation is too deep for a 258-byte frame *)
RECURSIVE XorAll(_)
XorAll(s) ==
    IF s = <<>> THEN 0
    ELSE IF Len(s) = 1 THEN Xor(0, s[1])
    ELSE LET h == Len(s) \div 2 IN
         Xor(XorAll(SubSeq(s, 1, h)), XorAll(SubSeq(s, h + 1, Len(s))))

(* Python's s[1:-1]: drops the first and the last element *)
Inner(s) == SubSeq(s, 2, Len(s) - 1)

(* Python's s[1:] *)
Rest(s) == SubSeq(s, 2, Len(s))

(* bytearray([v]) and bytearray.append(v) raise ValueError unless v is in range(256) *)
ByteOK(v) == v \in ByteRange

----------------------------------------------------------------------------
(* PacketReceiver as a value: the four fields and the exception status *)

\* PacketReceiver.__init__
NewReceiver ==
    [state |-> WAIT_SYNC, length |-> 0, data |-> <<>>, packets |-> <<>>,
     exc |-> "none"]

self ==
    [state |-> state, length |-> length, data |-> data, packets |-> packets,
     exc |-> exc]

\* mutant of feedSync: a byte that is not the marker empties the accumulator
feedSyncClear(rx, byte) ==
    IF byte = SYNC
    THEN IF ByteOK(byte)
         THEN [rx EXCEPT !.data = <<byte>>, !.state = WAIT_LENGTH]
         ELSE [rx EXCEPT !.exc = "ValueError"]
    ELSE [rx EXCEPT !.data = <<>>]

\* mutant of feedSync: `if byte >= 0xAA`, a noise byte above the marker starts a frame
feedSyncAtLeast(rx, byte) ==
    IF byte >= SYNC
    THEN IF ByteOK(byte)
         THEN [rx EXCEPT !.data = <<byte>>, !.state = WAIT_LENGTH]
         ELSE [rx EXCEPT !.exc = "ValueError"]
    ELSE rx

\* feed, branch `if self.state == RxState.WAIT_SYNC`
feedSync(rx, byte) ==
    IF byte = SYNC
    THEN IF ByteOK(byte)
         THEN [rx EXCEPT !.data = <<byte>>, !.state = WAIT_LENGTH]
         ELSE [rx EXCEPT !.exc = "ValueError"]
    ELSE rx

\* feed, branch `elif self.state == RxState.WAIT_LENGTH`
feedLength(rx, byte) ==
    IF ByteOK(byte)
    THEN [rx EXCEPT !.length = byte, !.data = Append(@, byte), !.state = WAIT_DATA]
    ELSE [rx EXCEPT !.length = byte, !.exc = "ValueError"]

\* mutant of feedData: `self.length + 3`, the checksum is counted as payload
feedDataOneMore(rx, byte) ==
    IF ByteOK(byte)
    THEN LET d == Append(rx.data, byte) IN
         [rx EXCEPT !.data = d,
                    !.state = IF Len(d) = rx.length + 3 THEN WAIT_CRC ELSE WAIT_DATA]
    ELSE [rx EXCEPT !.exc = "ValueError"]

\* feed, branch `elif self.state == RxState.WAIT_DATA`
feedData(rx, byte) ==
    IF ByteOK(byte)
    THEN LET d == Append(rx.data, byte) IN
         [rx EXCEPT !.data = d,
                    !.state = IF Len(d) = rx.length + 2 THEN WAIT_CRC ELSE WAIT_DATA]
    ELSE [rx EXCEPT !.exc = "ValueError"]

\* mutant of feedCrc: the checksum comparison is missing, every candidate is queued
feedCrcUnchecked(rx, byte) ==
    IF ByteOK(byte)
    THEN LET d == Append(rx.data, byte) IN
         [rx EXCEPT !.data = d, !.packets = Append(@, d), !.state = WAIT_SYNC]
    ELSE [rx EXCEPT !.exc = "ValueError"]

\* mutant of feedCrc: the state is reset only inside `if crc == byte`
feedCrcResetOnMatch(rx, byte) ==
    IF ByteOK(byte)
    THEN LET d == Append(rx.data, byte)
             crc == XorAll(Inner(d))
         IN  IF crc = byte
             THEN [rx EXCEPT !.data = d, !.packets = Append(@, d), !.state = WAIT_SYNC]
             ELSE [rx EXCEPT !.data = d]
    ELSE [rx EXCEPT !.exc = "ValueError"]

\* mutant of feedCrc: a checksum mismatch raises instead of dropping the candidate
feedCrcRaises(rx, byte) ==
    IF ByteOK(byte)
    THEN LET d == Append(rx.data, byte)
             crc == XorAll(Inner(d))
         IN  IF crc = byte
             THEN [rx EXCEPT !.data = d, !.packets = Append(@, d), !.state = WAIT_SYNC]
             ELSE [rx EXCEPT !.data = d, !.exc = "ValueError"]
    ELSE [rx EXCEPT !.exc = "ValueError"]

\* feed, branch `elif self.state == RxState.WAIT_CRC`
feedCrc(rx, byte) ==
    IF ByteOK(byte)
    THEN LET d == Append(rx.data, byte)
             crc == XorAll(Inner(d))
         IN  [rx EXCEPT !.data = d,
                        !.packets = IF crc = byte THEN Append(@, d) ELSE @,
                        !.state = WAIT_SYNC]
    ELSE [rx EXCEPT !.exc = "ValueError"]

\* mutant of feed: the sync marker restarts the frame in every state
feedResync(rx, byte) ==
    LET r == [rx EXCEPT !.exc = "none"] IN
    CASE byte = SYNC \/ rx.state = WAIT_SYNC -> feedSync(r, byte)
      [] rx.state = WAIT_LENGTH -> feedLength(r, byte)
      [] rx.state = WAIT_DATA -> feedData(r, byte)
      [] rx.state = WAIT_CRC -> feedCrc(r, byte)
      [] OTHER -> r

\* PacketReceiver.feed(byte): the receiver after the call
feed(rx, byte) ==
    LET r == [rx EXCEPT !.exc = "none"] IN
    CASE rx.state = WAIT_SYNC -> feedSync(r, byte)
      [] rx.state = WAIT_LENGTH -> feedLength(r, byte)
      [] rx.state = WAIT_DATA -> feedData(r, byte)
      [] rx.state = WAIT_CRC -> feedCrc(r, byte)
      [] OTHER -> r

\* mutant of get_packets: `return self.packets`, the queue is not replaced
get_packets_keep(rx) ==
    [pkts |-> rx.packets, rx |-> [rx EXCEPT !.exc = "none"]]

\* PacketReceiver.get_packets(): the list returned and the receiver after the call
get_packets(rx) ==
    [pkts |-> rx.packets, rx |-> [rx EXCEPT !.packets = <<>>, !.exc = "none"]]

\* feed every byte of s in order: `for byte in stream: receiver.feed(byte)`
RECURSIVE feedAll(_, _)
feedAll(rx, s) ==
    IF s = <<>> THEN rx
    ELSE feed(feedAll(rx, SubSeq(s, 1, Len(s) - 1)), s[Len(s)])

----------------------------------------------------------------------------
(* The sender's side of the wire format: [0xAA][len][payload...][xor] *)

\* the frame carrying payload p
Encode(p) == <<SYNC, Len(p)>> \o p \o <<XorAll(<<Len(p)>> \o p)>>

\* v with bit k flipped
FlipBit(v, k) == Xor(v, 2^k)

\* frame f with bit k of its checksum byte flipped
Corrupt(f, k) == [f EXCEPT ![Len(f)] = FlipBit(@, k)]

SeqsUpTo(S, n) == UNION {[1..k -> S] : k \in 0..n}

----------------------------------------------------------------------------
(* Inputs *)

\* Spec: the byte values a caller feeds
FeedBytes == {0, 1, 2, 3, SYNC, SYNC + 1}

\* SpecStream: payload bytes of the encoded frames
PayloadBytes == {1, SYNC, SYNC + 1}
Payloads == SeqsUpTo(PayloadBytes, MaxPayload)
Frames == {Encode(p) : p \in Payloads}

\* SpecStream: line noise, no byte of it is the sync marker
NoiseBytes == {0, 1, SYNC - 1, SYNC + 1, 255}
Noise == SeqsUpTo(NoiseBytes, MaxNoise)

\* SpecStream: unstructured streams
RawBytes == {0, 1, 2, SYNC, SYNC + 1}
RawStreams == SeqsUpTo(RawBytes, MaxRaw)

BitIndex == 0 .. (ByteBits - 1)

\* the stream of the Pattern 4 demo
DemoStream == <<0, 255, SYNC, 2, 1, 85, 86, 0, SYNC, 1, 2, 3>>

\* the largest value of the length byte
MaxLength == 2^ByteBits - 1

\* a sync byte, the length byte 0, then more zero bytes than the longest frame has
ZeroLengthRun == <<SYNC>> \o [i \in 1 .. (MaxLength + 3) |-> 0]

Streams ==
    {n \o f : n \in Noise, f \in Frames}
      \cup {f \o g : f \in Frames, g \in Frames}
      \cup {Corrupt(f, k) \o g : f \in Frames, k \in BitIndex, g \in Frames}
      \cup RawStreams
      \cup {DemoStream, ZeroLengthRun}

----------------------------------------------------------------------------
(* Operations *)

\* the receiver's fields take the values of record r
Becomes(r) ==
    /\ state' = r.state
    /\ length' = r.length
    /\ data' = r.data
    /\ packets' = r.packets
    /\ exc' = r.exc

\* a call receiver.feed(byte)
Feed(byte) ==
    LET r == feed(self, byte) IN
    /\ Becomes(r)
    /\ completed' = completed \o SubSeq(r.packets, Len(packets) + 1, Len(r.packets))
    /\ nfed' = nfed + 1
    /\ lastOp' = "feed"
    /\ UNCHANGED <<out, drained, stream>>
    /\ UNCHANGED <<twoVars, callVars>>

\* a call receiver.get_packets()
GetPackets ==
    LET g == get_packets(self) IN
    /\ Becomes(g.rx)
    /\ out' = g.pkts
    /\ drained' = drained \o g.pkts
    /\ lastOp' = "get_packets"
    /\ UNCHANGED <<completed, nfed, stream>>
    /\ UNCHANGED <<twoVars, callVars>>

\* receiver = PacketReceiver()
InitReceiver ==
    /\ state = NewReceiver.state
    /\ length = NewReceiver.length
    /\ data = NewReceiver.data
    /\ packets = NewReceiver.packets
    /\ exc = NewReceiver.exc
    /\ out = <<>>
    /\ lastOp = "init"
    /\ completed = <<>>
    /\ drained = <<>>
    /\ nfed = 0

----------------------------------------------------------------------------
(* Spec: a caller that feeds any bytes and drains whenever it likes *)

\* SpecTwo's variables where no second receiver exists
NoInstances ==
    /\ cells = <<>>
    /\ hist = <<>>
    /\ rets = <<>>

\* SpecCall's variables where no function is called
NoCall ==
    /\ call = <<>>
    /\ pc = "none"
    /\ loc = <<>>
    /\ ret = <<>>
    /\ env = <<>>

Init ==
    /\ InitReceiver
    /\ stream = <<>>
    /\ NoInstances
    /\ NoCall

FeedAny ==
    /\ nfed < MaxFeed
    /\ \E byte \in FeedBytes : Feed(byte)

Next ==
    \/ FeedAny
    \/ GetPackets

Spec == Init /\ [][Next]_vars

----------------------------------------------------------------------------
(* SpecStream: `for byte in stream: receiver.feed(byte)`, then get_packets() *)

InitStream ==
    /\ InitReceiver
    /\ stream \in Streams
    /\ NoInstances
    /\ NoCall

FeedNext ==
    /\ nfed < Len(stream)
    /\ Feed(stream[nfed + 1])

DrainAtEnd ==
    /\ nfed = Len(stream)
    /\ lastOp # "get_packets"
    /\ GetPackets

NextStream ==
    \/ FeedNext
    \/ DrainAtEnd

SpecStream == InitStream /\ [][NextStream]_vars

\* the whole stream was fed and get_packets() was called once
Done == nfed = Len(stream) /\ lastOp = "get_packets"

----------------------------------------------------------------------------
(* Claims checked under SpecStream *)

\* the payloads that are not empty, and their frames
DataFrames == {Encode(p) : p \in Payloads \ {<<>>}}

\* C1 (P1, round trip): for every payload p, feeding the frame
\* [0xAA][len(p)][p...][xor] to a fresh receiver and calling get_packets()
\* returns exactly one frame, equal to the bytes fed.
C1_RoundTrip ==
    Done => \A p \in Payloads : stream = Encode(p) => out = <<stream>>

\* C2 (P5, zero-length frame): after 0xAA 0x00 0x00 on a fresh receiver,
\* get_packets() returns exactly [0xAA, 0x00, 0x00] and the machine is back
\* in WAIT_SYNC.
C2_ZeroLength ==
    (Done /\ stream = <<SYNC, 0, 0>>) => (out = <<stream>> /\ state = WAIT_SYNC)

\* C3 (P3, checksum rejection and recovery): for every valid frame f, every
\* single-bit flip of f's checksum and every valid frame g, feeding the
\* corrupted f and then g returns exactly [g].
C3_ChecksumRejection ==
    Done => \A f \in Frames, g \in Frames, k \in BitIndex :
                stream = Corrupt(f, k) \o g => out = <<g>>

\* C4 (P2, noise tolerance): for every noise sequence n without 0xAA and every
\* valid frame f, feeding n then f gives the same get_packets() result and
\* the same final receiver as feeding f alone.
C4_NoiseTolerance ==
    Done => \A n \in Noise, f \in Frames :
                stream = n \o f =>
                    LET alone == get_packets(feedAll(NewReceiver, f)) IN
                    /\ out = alone.pkts
                    /\ self = alone.rx

\* C4 witness: a frame was recovered behind two bytes of noise
C4_Witness ==
    /\ Done
    /\ \E n \in Noise, f \in DataFrames :
          Len(n) = 2 /\ stream = n \o f /\ out = <<f>>

\* C5 (P4, back-to-back frames): for every pair of valid frames f, g, feeding
\* f immediately followed by g and calling get_packets() once returns
\* exactly [f, g].
C5_BackToBack ==
    Done => \A f \in Frames, g \in Frames :
                stream = f \o g => out = <<f, g>>

\* the stream of the embedded-sync scenario: 0xAA 0x01 0xAA 0xAB
EmbeddedSync == <<SYNC, 1, SYNC, SYNC + 1>>

\* C9: a 0xAA fed in WAIT_LENGTH, WAIT_DATA or WAIT_CRC is not a new sync: the
\* accumulator is extended by it, not reset, and it is taken as the length,
\* a payload byte or the checksum; and 0xAA 0x01 0xAA 0xAB on a fresh receiver
\* yields exactly the one frame [0xAA, 0x01, 0xAA, 0xAB].
C9_SyncByteIsData ==
    [][ /\ (nfed < Len(stream) /\ Feed(stream[nfed + 1])
              /\ stream[nfed + 1] = SYNC /\ state # WAIT_SYNC)
           => /\ data' = Append(data, SYNC)
              /\ state' # WAIT_LENGTH
              /\ state = WAIT_LENGTH => (length' = SYNC /\ state' = WAIT_DATA)
              /\ state = WAIT_DATA =>
                    /\ length' = length /\ packets' = packets
                    /\ state' = IF Len(data) + 1 = length + 2
                                THEN WAIT_CRC ELSE WAIT_DATA
              /\ state = WAIT_CRC =>
                    /\ state' = WAIT_SYNC
                    /\ packets' = IF XorAll(Rest(data)) = SYNC
                                  THEN Append(packets, data') ELSE packets
        /\ (stream = EmbeddedSync /\ Done') => out' = <<EmbeddedSync>>
      ]_vars

\* C9 witness: the embedded-sync stream was fed and drained as one frame
C9_Witness ==
    Done /\ stream = EmbeddedSync /\ out = <<EmbeddedSync>>

----------------------------------------------------------------------------
(* Claims checked under Spec *)

\* a step that is a get_packets() call
IsGetPackets == lastOp' = "get_packets" /\ nfed' = nfed

\* C6 (drain semantics): each get_packets() returns exactly the frames
\* completed since the previous get_packets(), in completion order, and
\* empties the queue; called again with no feed in between it returns the
\* empty list; so all drain results together are the completed frames, none
\* lost and none returned twice.
C6_DrainSemantics ==
    [][ IsGetPackets =>
          /\ out' = SubSeq(completed, Len(drained) + 1, Len(completed))
          /\ packets' = <<>>
          /\ drained' = completed
          /\ lastOp = "get_packets" => out' = <<>>
      ]_vars

\* C6 witness: two frames completed, drained by two separate calls
C6_Witness ==
    /\ lastOp = "get_packets"
    /\ Len(completed) = 2
    /\ drained = completed
    /\ out = <<completed[2]>>

\* C7 (only validated, complete frames are emitted): every element q of the
\* output queue starts with 0xAA, is q[1] + 3 bytes long and ends with the
\* XOR of its bytes from index 1 up to the last byte.
C7_OnlyValidFrames ==
    \A i \in 1 .. Len(packets) :
        LET q == packets[i] IN
        /\ q[1] = SYNC
        /\ Len(q) = q[2] + 3
        /\ q[Len(q)] = XorAll(SubSeq(q, 2, Len(q) - 1))

\* C7 witness: two frames are queued
C7_Witness == Len(packets) = 2

\* C8: a feed() in WAIT_CRC always leaves the machine in WAIT_SYNC; the queue
\* grows by exactly one frame when the byte is the XOR of the accumulated
\* bytes after the sync byte, and is unchanged otherwise.
C8_CrcAlwaysResyncs ==
    [][ \A byte \in FeedBytes :
          (state = WAIT_CRC /\ Feed(byte)) =>
             /\ state' = WAIT_SYNC
             /\ IF byte = XorAll(Rest(data))
                THEN /\ Len(packets') = Len(packets) + 1
                     /\ SubSeq(packets', 1, Len(packets)) = packets
                ELSE packets' = packets
      ]_vars

\* C8 witness: after an accepted frame, a candidate with a bad checksum was
\* dropped and the machine is back in WAIT_SYNC
C8_Witness ==
    /\ lastOp = "feed"
    /\ state = WAIT_SYNC
    /\ Len(data) = length + 3
    /\ data[Len(data)] # XorAll(Inner(data))
    /\ Len(completed) = 1

\* C10: feed() never raises, whatever the state and the byte, and leaves the
\* state one of the four RxState members; get_packets() never raises.
C10_NeverRaises ==
    /\ exc = "none"
    /\ state \in RxState

\* C10 witness: get_packets() was called in the middle of a frame
C10_Witness ==
    /\ lastOp = "get_packets"
    /\ state = WAIT_CRC
    /\ exc = "none"

----------------------------------------------------------------------------
(* Claims about the demo stream and the accumulator, under SpecStream *)

\* C11: the demo stream 00 FF AA 02 01 55 56 00 AA 01 02 03, fed byte by byte
\* to a fresh receiver, yields from one get_packets() call exactly the frames
\* AA 02 01 55 56 and AA 01 02 03, in that order; the noise bytes are
\* discarded and the machine ends in WAIT_SYNC.
C11_DemoStream ==
    (Done /\ stream = DemoStream) =>
        /\ out = << <<SYNC, 2, 1, 85, 86>>, <<SYNC, 1, 2, 3>> >>
        /\ state = WAIT_SYNC
        /\ packets = <<>>

\* C11 witness: the demo stream was fed and two frames were drained
C11_Witness ==
    Done /\ stream = DemoStream /\ Len(out) = 2

\* C20 (accumulator bound): the accumulator never holds more than
\* 258 bytes, the largest length byte plus 3.
C20_AccumulatorBound ==
    Len(data) <= MaxLength + 3

----------------------------------------------------------------------------
(* SpecTwo: two PacketReceiver instances, calls on them interleaved *)

\* SpecTwo: number of calls made on the two receivers together
MaxCalls == 9

\* SpecTwo: the byte values fed
TwoBytes == {0, 1, SYNC}

Instances == {"A", "B"}

\* mutant of QueueOf: `packets = []` in the class body, one list for all instances
QueueShared(i) == "A"

\* the list object that instance i's self.packets names: __init__ makes one
\* per instance
QueueOf(i) == i

\* instance i as a receiver value
Receiver(i) ==
    [state |-> cells.inst[i].state, length |-> cells.inst[i].length,
     data |-> cells.inst[i].data, packets |-> cells.queue[QueueOf(i)],
     exc |-> cells.inst[i].exc]

\* the storage after instance i has become r
Stored(i, r) ==
    [inst |-> [cells.inst EXCEPT ![i] =
                  [state |-> r.state, length |-> r.length, data |-> r.data,
                   exc |-> r.exc]],
     queue |-> [cells.queue EXCEPT ![QueueOf(i)] = r.packets]]

\* SpecStream's and Spec's variables where only SpecTwo's receivers exist
RxIdle ==
    /\ InitReceiver
    /\ stream = <<>>

\* two receivers are constructed
InitTwo ==
    /\ cells = [inst |-> [i \in Instances |->
                            [state |-> NewReceiver.state,
                             length |-> NewReceiver.length,
                             data |-> NewReceiver.data,
                             exc |-> NewReceiver.exc]],
                queue |-> [i \in Instances |-> NewReceiver.packets]]
    /\ hist = [i \in Instances |->
                 [solo |-> NewReceiver, drained |-> <<>>, ncalls |-> 0]]
    /\ rets = [i \in Instances |-> <<>>]
    /\ RxIdle
    /\ NoCall

CallsMade == hist["A"].ncalls + hist["B"].ncalls

\* a call i.feed(byte); hist[i].solo is a receiver that gets i's calls alone
FeedOn(i, byte) ==
    /\ cells' = Stored(i, feed(Receiver(i), byte))
    /\ hist' = [hist EXCEPT ![i] =
                  [solo |-> feed(@.solo, byte), drained |-> @.drained,
                   ncalls |-> @.ncalls + 1]]
    /\ UNCHANGED <<rets, rxVars, callVars>>

\* a call i.get_packets()
GetPacketsOn(i) ==
    LET g == get_packets(Receiver(i))
        h == get_packets(hist[i].solo)
    IN  /\ cells' = Stored(i, g.rx)
        /\ rets' = [rets EXCEPT ![i] = @ \o g.pkts]
        /\ hist' = [hist EXCEPT ![i] =
                      [solo |-> h.rx, drained |-> @.drained \o h.pkts,
                       ncalls |-> @.ncalls + 1]]
        /\ UNCHANGED <<rxVars, callVars>>

FeedEither ==
    /\ CallsMade < MaxCalls
    /\ \E i \in Instances, byte \in TwoBytes : FeedOn(i, byte)

DrainEither ==
    /\ CallsMade < MaxCalls
    /\ \E i \in Instances : GetPacketsOn(i)

NextTwo ==
    \/ FeedEither
    \/ DrainEither

SpecTwo == InitTwo /\ [][NextTwo]_vars

\* C12 (instance independence): a call on one instance leaves the other's
\* state, length, accumulator and queue unchanged, and each instance and its
\* drained output are what they would be had it been given its own calls alone.
C12_InstancesIndependent ==
    [][ \A i \in Instances :
          /\ hist'[i] = hist[i] => Receiver(i)' = Receiver(i)
          /\ Receiver(i)' = hist'[i].solo
          /\ rets'[i] = hist'[i].drained
      ]_vars

\* C12 witness: A has drained a frame while B is in the middle of one
C12_Witness ==
    /\ Len(rets["A"]) = 1
    /\ cells.inst["B"].state = WAIT_CRC
    /\ cells.queue["A"] = <<>>

----------------------------------------------------------------------------
(* Python's integer operators, on non-negative integers *)

\* a & b
RECURSIVE And(_, _)
And(a, b) ==
    IF a = 0 \/ b = 0 THEN 0
    ELSE ((a % 2) * (b % 2)) + (2 * And(a \div 2, b \div 2))

\* a | b
RECURSIVE Or(_, _)
Or(a, b) ==
    IF a = 0 /\ b = 0 THEN 0
    ELSE (IF (a % 2) + (b % 2) > 0 THEN 1 ELSE 0) + (2 * Or(a \div 2, b \div 2))

\* a << n
Shl(a, n) == a * (2^n)

\* a >> n
Shr(a, n) == a \div (2^n)

(* What a call leaves behind: a value returned, None returned, an exception *)
Pending == [kind |-> "pending", val |-> <<>>]
Return(v) == [kind |-> "return", val |-> v]
None == [kind |-> "None", val |-> <<>>]
Raise(e) == [kind |-> "raise", val |-> e]

\* every element of s can be stored in a bytearray
AllBytes(s) == \A i \in 1 .. Len(s) : ByteOK(s[i])

----------------------------------------------------------------------------
(* 02_serial_communication.py, PATTERN 2: build_packet and parse_packet *)

\* mutant of build_packet: `length = len(payload)`, the command is not counted
build_packet_len_payload(cmd, payload) ==
    LET len1 == Len(payload)
        packet == <<SYNC, len1, cmd>> \o payload
    IN  IF ByteOK(len1) /\ ByteOK(cmd) /\ AllBytes(payload)
        THEN Return(Append(packet, XorAll(Rest(packet))))
        ELSE Raise("ValueError")

\* mutant of build_packet: `for b in packet`, the sync byte is in the checksum
build_packet_crc_all(cmd, payload) ==
    LET len1 == Len(payload) + 1
        packet == <<SYNC, len1, cmd>> \o payload
    IN  IF ByteOK(len1) /\ ByteOK(cmd) /\ AllBytes(payload)
        THEN Return(Append(packet, XorAll(packet)))
        ELSE Raise("ValueError")

\* build_packet(cmd, payload)
build_packet(cmd, payload) ==
    LET len1 == Len(payload) + 1
        packet == <<SYNC, len1, cmd>> \o payload
    IN  IF ByteOK(len1) /\ ByteOK(cmd) /\ AllBytes(payload)
        THEN Return(Append(packet, XorAll(Rest(packet))))
        ELSE Raise("ValueError")

\* parse_packet(data)
parse_packet(d) ==
    IF Len(d) < 4 THEN None
    ELSE IF d[1] # SYNC THEN None
    ELSE IF Len(d) < d[2] + 3 THEN None
    ELSE IF XorAll(Inner(d)) # d[Len(d)] THEN None
    ELSE Return(<<d[3], SubSeq(d, 4, Len(d) - 1)>>)

----------------------------------------------------------------------------
(* 04_testing_and_tools.py: parse_sensor_packet *)

\* mutant of parse_sensor_packet: `if len(packet) < 3`
parse_sensor_packet_short(packet) ==
    IF Len(packet) < 3 THEN None
    ELSE IF packet[1] # SYNC THEN None
    ELSE Return([sync |-> packet[1], length |-> packet[2], cmd |-> packet[3],
                 data |-> SubSeq(packet, 4, Len(packet) - 1),
                 crc |-> packet[Len(packet)]])

\* parse_sensor_packet(packet)
parse_sensor_packet(packet) ==
    IF Len(packet) < 4 THEN None
    ELSE IF packet[1] # SYNC THEN None
    ELSE Return([sync |-> packet[1], length |-> packet[2], cmd |-> packet[3],
                 data |-> SubSeq(packet, 4, Len(packet) - 1),
                 crc |-> packet[Len(packet)]])

----------------------------------------------------------------------------
(* 06_protocol_buffers.py: encode_varint and decode_varint *)

\* mutant of encode_varint_loop: `while value > 128`
RECURSIVE encode_varint_loop_128(_, _)
encode_varint_loop_128(value, result) ==
    IF value > 128
    THEN encode_varint_loop_128(Shr(value, 7),
                                Append(result, Or(And(value, 127), 128)))
    ELSE Append(result, value)

\* the while loop of encode_varint and the append after it
RECURSIVE encode_varint_loop(_, _)
encode_varint_loop(value, result) ==
    IF value > 127
    THEN encode_varint_loop(Shr(value, 7),
                            Append(result, Or(And(value, 127), 128)))
    ELSE Append(result, value)

\* encode_varint(value); bytes(result) raises unless every element is a byte
encode_varint(value) ==
    LET result == encode_varint_loop(value, <<>>) IN
    IF AllBytes(result) THEN Return(result) ELSE Raise("ValueError")

\* the for loop of decode_varint, from the i-th byte on
RECURSIVE decode_varint_loop(_, _, _, _)
decode_varint_loop(d, i, result, shift) ==
    IF i > Len(d) THEN result
    ELSE LET r == Or(result, Shl(And(d[i], 127), shift)) IN
         IF And(d[i], 128) = 0 THEN r
         ELSE decode_varint_loop(d, i + 1, r, shift + 7)

\* decode_varint(data)
decode_varint(d) == Return(decode_varint_loop(d, 1, 0, 0))

----------------------------------------------------------------------------
(* SpecCall: the calls and their steps *)

\* longest payload given to build_packet
MaxArgLen == 3
\* longest packet given to parse_sensor_packet
MaxPacket == 5
\* largest value given to encode_varint
MaxVarint == 16400

CmdBytes == {0, 1, SYNC, 255}
ArgBytes == {16, 32, SYNC}
SensorBytes == {1, 3, SYNC, 187}

\* the packets of test_parse_valid_packet and test_parse_invalid_sync
TestPackets == { <<SYNC, 3, 1, 16, 32, 85>>, <<187, 3, 1, 16, 32, 85>> }

BuildCalls ==
    {[fn |-> "build_packet", cmd |-> c, payload |-> q] :
        c \in CmdBytes, q \in SeqsUpTo(ArgBytes, MaxArgLen)}

SensorCalls ==
    {[fn |-> "parse_sensor_packet", packet |-> q] :
        q \in SeqsUpTo(SensorBytes, MaxPacket) \cup TestPackets}

VarintCalls ==
    {[fn |-> "encode_varint", value |-> v] : v \in 0 .. MaxVarint}

\* packet = build_packet(cmd, payload)
BuildPacket ==
    /\ call.fn = "build_packet" /\ pc = "start"
    /\ LET b == build_packet(call.cmd, call.payload) IN
       IF b.kind = "return"
       THEN loc' = [packet |-> b.val] /\ pc' = "built" /\ ret' = ret
       ELSE loc' = loc /\ pc' = "done" /\ ret' = b
    /\ UNCHANGED <<call, env, rxVars, twoVars>>

\* parsed = parse_packet(packet)
ParsePacket ==
    /\ call.fn = "build_packet" /\ pc = "built"
    /\ ret' = parse_packet(loc.packet)
    /\ pc' = "done"
    /\ UNCHANGED <<call, loc, env, rxVars, twoVars>>

\* result = parse_sensor_packet(packet)
ParseSensorPacket ==
    /\ call.fn = "parse_sensor_packet" /\ pc = "start"
    /\ ret' = parse_sensor_packet(call.packet)
    /\ pc' = "done"
    /\ UNCHANGED <<call, loc, env, rxVars, twoVars>>

\* encoded = encode_varint(val)
EncodeVarint ==
    /\ call.fn = "encode_varint" /\ pc = "start"
    /\ LET b == encode_varint(call.value) IN
       IF b.kind = "return"
       THEN loc' = [encoded |-> b.val] /\ pc' = "encoded" /\ ret' = ret
       ELSE loc' = loc /\ pc' = "done" /\ ret' = b
    /\ UNCHANGED <<call, env, rxVars, twoVars>>

\* decode_varint(encoded)
DecodeVarint ==
    /\ call.fn = "encode_varint" /\ pc = "encoded"
    /\ ret' = decode_varint(loc.encoded)
    /\ pc' = "done"
    /\ UNCHANGED <<call, loc, env, rxVars, twoVars>>

----------------------------------------------------------------------------
(* 04_testing_and_tools.py: calculate_crc8, one loop iteration per step *)

\* longest input given to calculate_crc8
MaxCrcLen == 3

CrcBytes == {1, 2, 3, 128, 255}

Crc8Calls ==
    {[fn |-> "calculate_crc8", data |-> q] : q \in SeqsUpTo(CrcBytes, MaxCrcLen)}

\* mutant of crc8_shift: `crc &= 0xFF` is missing
crc8_shift_unmasked(crc) ==
    IF And(crc, 128) # 0 THEN Xor(Shl(crc, 1), 7) ELSE Shl(crc, 1)

\* the body of `for _ in range(8)`
crc8_shift(crc) ==
    And(IF And(crc, 128) # 0 THEN Xor(Shl(crc, 1), 7) ELSE Shl(crc, 1), 255)

\* crc = 0
Crc8Begin ==
    /\ call.fn = "calculate_crc8" /\ pc = "start"
    /\ loc' = [crc |-> 0, i |-> 0, k |-> 0]
    /\ pc' = "for"
    /\ UNCHANGED <<call, ret, env, rxVars, twoVars>>

\* for byte in data: crc ^= byte
Crc8NextByte ==
    /\ call.fn = "calculate_crc8" /\ pc = "for"
    /\ loc.i < Len(call.data)
    /\ loc' = [crc |-> Xor(loc.crc, call.data[loc.i + 1]), i |-> loc.i + 1, k |-> 0]
    /\ pc' = "bits"
    /\ UNCHANGED <<call, ret, env, rxVars, twoVars>>

\* one iteration of `for _ in range(8)`
Crc8Shift ==
    /\ call.fn = "calculate_crc8" /\ pc = "bits"
    /\ loc' = [loc EXCEPT !.crc = crc8_shift(@), !.k = @ + 1]
    /\ pc' = IF loc.k + 1 = ByteBits THEN "for" ELSE "bits"
    /\ UNCHANGED <<call, ret, env, rxVars, twoVars>>

\* return crc
Crc8Return ==
    /\ call.fn = "calculate_crc8" /\ pc = "for"
    /\ loc.i = Len(call.data)
    /\ ret' = Return(loc.crc)
    /\ pc' = "done"
    /\ UNCHANGED <<call, loc, env, rxVars, twoVars>>

----------------------------------------------------------------------------
(* 02_serial_communication.py, PATTERN 5: reliable_command *)

\* largest max_retries given to reliable_command
MaxRetries == 3
\* polls of the serial port in one attempt that neither end it nor time out
MaxPolls == 2

RetryCalls ==
    {[fn |-> "reliable_command", max_retries |-> n] : n \in 0 .. MaxRetries}

\* what the device may have sent when the port is polled
Lines == {"OK", "ERROR", "+VERSION: 1.2.3"}

\* mutant of attempts_remain: one attempt too many
attempts_remain_inclusive(i, max_retries) == i <= max_retries

\* `for attempt in range(max_retries)`: an i-th iteration (from 0) exists
attempts_remain(i, max_retries) == i < max_retries

\* `raise last_error`; raising None is a TypeError
raise_last(last_error) ==
    IF last_error = "None" THEN Raise("TypeError") ELSE Raise(last_error)

\* last_error = None
RetryBegin ==
    /\ call.fn = "reliable_command" /\ pc = "start"
    /\ loc' = [i |-> 0, last_error |-> "None", error |-> "None",
               response |-> "", polls |-> 0]
    /\ env' = [writes |-> 0, reads |-> 0]
    /\ pc' = "for"
    /\ UNCHANGED <<call, ret, rxVars, twoVars>>

\* the next attempt: ser.reset_input_buffer(); ser.write(command)
RetryAttempt ==
    /\ call.fn = "reliable_command" /\ pc = "for"
    /\ attempts_remain(loc.i, call.max_retries)
    /\ loc' = [loc EXCEPT !.i = @ + 1, !.polls = 0, !.response = ""]
    /\ env' = [env EXCEPT !.writes = @ + 1]
    /\ pc' = "while"
    /\ UNCHANGED <<call, ret, rxVars, twoVars>>

\* the for loop is exhausted: raise last_error
RetryRaiseLast ==
    /\ call.fn = "reliable_command" /\ pc = "for"
    /\ ~attempts_remain(loc.i, call.max_retries)
    /\ ret' = raise_last(loc.last_error)
    /\ pc' = "done"
    /\ UNCHANGED <<call, loc, env, rxVars, twoVars>>

\* the while condition fails: raise TimeoutError("No response")
RetryTimeout ==
    /\ call.fn = "reliable_command" /\ pc = "while"
    /\ loc' = [loc EXCEPT !.error = "TimeoutError"]
    /\ pc' = "except"
    /\ UNCHANGED <<call, ret, env, rxVars, twoVars>>

\* in time and ser.in_waiting == 0: time.sleep(0.01)
RetryPollEmpty ==
    /\ call.fn = "reliable_command" /\ pc = "while"
    /\ loc.polls < MaxPolls
    /\ loc' = [loc EXCEPT !.polls = @ + 1]
    /\ UNCHANGED <<call, pc, ret, env, rxVars, twoVars>>

\* in time and ser.in_waiting > 0: response = ser.readline().decode().strip()
RetryReadLine ==
    /\ call.fn = "reliable_command" /\ pc = "while"
    /\ \E line \in Lines :
          /\ line \notin {"OK", "ERROR"} => loc.polls < MaxPolls
          /\ env' = [env EXCEPT !.reads = @ + 1]
          /\ IF line = "OK"
             THEN /\ loc' = [loc EXCEPT !.response = line]
                  /\ ret' = Return(line)
                  /\ pc' = "done"
             ELSE IF line = "ERROR"
             THEN /\ loc' = [loc EXCEPT !.response = line, !.error = "ValueError"]
                  /\ ret' = ret
                  /\ pc' = "except"
             ELSE /\ loc' = [loc EXCEPT !.response = line, !.polls = @ + 1]
                  /\ ret' = ret
                  /\ pc' = pc
    /\ UNCHANGED <<call, rxVars, twoVars>>

\* except (TimeoutError, ValueError) as e: last_error = e; back off
RetryExcept ==
    /\ call.fn = "reliable_command" /\ pc = "except"
    /\ loc' = [loc EXCEPT !.last_error = loc.error]
    /\ pc' = "for"
    /\ UNCHANGED <<call, ret, env, rxVars, twoVars>>

----------------------------------------------------------------------------
(* 02_serial_communication.py, PATTERN 6: with Device(...) as dev *)

\* with-blocks entered one after another on one Device
MaxBlocks == 2

\* what the body of a with-block may raise
BodyErrors == {"ValueError", "KeyboardInterrupt"}

DeviceCalls == {[fn |-> "with_device", port |-> "/dev/ttyUSB0"]}

\* MockSerial.close() on port n of ports
close(ports, n) ==
    [ports EXCEPT ![n] = [is_open |-> FALSE, closes |-> @.closes + 1]]

\* mutant of device_exit: `return True`, the exception is swallowed
device_exit_suppress(ser, ports) ==
    [ports |-> IF ser # 0 THEN close(ports, ser) ELSE ports, suppress |-> TRUE]

\* Device.__exit__: the ports afterwards and the value returned; ser is 0
\* for None
device_exit(ser, ports) ==
    [ports |-> IF ser # 0 THEN close(ports, ser) ELSE ports, suppress |-> FALSE]

\* Device.__init__: self.ser = None
DeviceInit ==
    /\ call.fn = "with_device" /\ pc = "start"
    /\ loc' = [ser |-> 0, exc |-> "None", blocks |-> 0]
    /\ env' = [ports |-> <<>>]
    /\ pc' = "with"
    /\ UNCHANGED <<call, ret, rxVars, twoVars>>

\* Device.__enter__: self.ser = Serial(self.port, self.baudrate, timeout=1.0)
DeviceEnter ==
    /\ call.fn = "with_device" /\ pc = "with"
    /\ loc.blocks < MaxBlocks
    /\ env' = [ports |-> Append(env.ports, [is_open |-> TRUE, closes |-> 0])]
    /\ loc' = [ser |-> Len(env.ports) + 1, exc |-> "None", blocks |-> loc.blocks + 1]
    /\ pc' = "body"
    /\ UNCHANGED <<call, ret, rxVars, twoVars>>

\* the body of the with-block runs to its end
BodyEnds ==
    /\ call.fn = "with_device" /\ pc = "body"
    /\ pc' = "exit"
    /\ UNCHANGED <<call, loc, ret, env, rxVars, twoVars>>

\* the body of the with-block raises
BodyRaises ==
    /\ call.fn = "with_device" /\ pc = "body"
    /\ \E e \in BodyErrors : loc' = [loc EXCEPT !.exc = e]
    /\ pc' = "exit"
    /\ UNCHANGED <<call, ret, env, rxVars, twoVars>>

\* the with statement calls __exit__ and re-raises unless it returned true
DeviceExit ==
    /\ call.fn = "with_device" /\ pc = "exit"
    /\ LET x == device_exit(loc.ser, env.ports) IN
       /\ env' = [ports |-> x.ports]
       /\ IF loc.exc # "None" /\ ~x.suppress
          THEN pc' = "done" /\ ret' = Raise(loc.exc)
          ELSE pc' = "with" /\ ret' = ret
    /\ UNCHANGED <<call, loc, rxVars, twoVars>>

----------------------------------------------------------------------------
(* SpecCall *)

Calls ==
    BuildCalls \cup SensorCalls \cup VarintCalls \cup Crc8Calls
      \cup RetryCalls \cup DeviceCalls

InitCall ==
    /\ call \in Calls
    /\ pc = "start"
    /\ loc = <<>>
    /\ ret = Pending
    /\ env = <<>>
    /\ RxIdle
    /\ NoInstances

NextCall ==
    \/ BuildPacket
    \/ ParsePacket
    \/ ParseSensorPacket
    \/ EncodeVarint
    \/ DecodeVarint
    \/ Crc8Begin
    \/ Crc8NextByte
    \/ Crc8Shift
    \/ Crc8Return
    \/ RetryBegin
    \/ RetryAttempt
    \/ RetryRaiseLast
    \/ RetryTimeout
    \/ RetryPollEmpty
    \/ RetryReadLine
    \/ RetryExcept
    \/ DeviceInit
    \/ DeviceEnter
    \/ BodyEnds
    \/ BodyRaises
    \/ DeviceExit

SpecCall == InitCall /\ [][NextCall]_vars

----------------------------------------------------------------------------
(* Claims checked under SpecCall *)

\* C13 (build_packet / parse_packet round trip): parse_packet(build_packet(cmd,
\* payload)) returns (cmd, payload), and the packet built is
\* [0xAA][len(payload)+1][cmd][payload...][XOR of all bytes after the sync].
C13_BuildParseRoundTrip ==
    (call.fn = "build_packet" /\ pc = "done") =>
        /\ ret.kind = "return"
        /\ ret.val = <<call.cmd, call.payload>>
        /\ loc.packet = <<SYNC, Len(call.payload) + 1, call.cmd>> \o call.payload
                          \o <<XorAll(<<Len(call.payload) + 1, call.cmd>>
                                        \o call.payload)>>

\* C13 witness: the demo's build_packet(0x01, [0x10, 0x20]) was parsed back
C13_Witness ==
    /\ call.fn = "build_packet" /\ pc = "done"
    /\ call.cmd = 1 /\ call.payload = <<16, 32>>
    /\ loc.packet = <<SYNC, 3, 1, 16, 32, 50>>

\* C14 (reliable_command, attempts): at most max_retries attempts are made,
\* each with one write of the command; the attempt that reads 'OK' returns
\* 'OK' at once and nothing is written afterwards; an attempt that reads
\* 'ERROR' or times out is followed by the next attempt while attempts remain.
C14_RetryAttempts ==
    [][ (call.fn = "reliable_command" /\ pc # "start") =>
          /\ env'.writes <= call.max_retries
          /\ env'.writes = loc'.i
          /\ (env'.reads # env.reads /\ loc'.response = "OK") =>
                /\ pc' = "done" /\ ret'.kind = "return" /\ ret'.val = "OK"
                /\ env'.writes = env.writes
          /\ pc = "done" => env'.writes = env.writes
          /\ (pc = "while" /\ loc'.error # loc.error) => pc' = "except"
          /\ (pc = "while" /\ env'.reads # env.reads /\ loc'.response = "ERROR")
                => pc' = "except"
          /\ pc = "except" => pc' = "for"
          /\ (pc = "for" /\ loc.i < call.max_retries) =>
                (pc' = "while" /\ env'.writes = env.writes + 1)
      ]_vars

\* C14 witness: the second attempt read 'OK' after the first one failed
C14_Witness ==
    /\ call.fn = "reliable_command" /\ pc = "done"
    /\ ret.kind = "return"
    /\ env.writes = 2
    /\ loc.last_error = "ValueError"

\* C15 (reliable_command, outcome): for every max_retries the call either
\* returns 'OK' or, after exactly max_retries failed attempts, raises the
\* TimeoutError or ValueError of the last failed attempt.
C15_OkOrLastError ==
    (call.fn = "reliable_command" /\ pc = "done") =>
        \/ ret.kind = "return" /\ ret.val = "OK"
        \/ /\ ret.kind = "raise"
           /\ ret.val \in {"TimeoutError", "ValueError"}
           /\ ret.val = loc.last_error
           /\ loc.i = call.max_retries
           /\ env.writes = call.max_retries

C17_ParseSensorPacket ==
    (call.fn = "parse_sensor_packet" /\ pc = "done") =>
        LET q == call.packet IN
        /\ ret.kind = "None" <=> (Len(q) < 4 \/ q[1] # SYNC)
        /\ ret.kind # "None" =>
              /\ ret.kind = "return"
              /\ ret.val = [sync |-> q[1], length |-> q[2], cmd |-> q[3],
                            data |-> SubSeq(q, 4, Len(q) - 1), crc |-> q[Len(q)]]

\* C17 witness: the packet of test_parse_valid_packet was parsed, its length
\* field and checksum unchecked
C17_Witness ==
    /\ call.fn = "parse_sensor_packet" /\ pc = "done"
    /\ call.packet = <<SYNC, 3, 1, 16, 32, 85>>
    /\ ret.kind = "return"
    /\ ret.val.data = <<16, 32>>

\* C18 (calculate_crc8): 0 for the empty input, 0x07 for the single byte 0x01,
\* and the register is in 0..255 after every step of the loop and on return.
C18_Crc8Range ==
    (call.fn = "calculate_crc8" /\ pc # "start") =>
        /\ loc.crc \in ByteRange
        /\ pc = "done" =>
              /\ ret.kind = "return"
              /\ ret.val \in ByteRange
              /\ call.data = <<>> => ret.val = 0
              /\ call.data = <<1>> => ret.val = 7

\* C18 witness: calculate_crc8([0x01]) returned 0x07
C18_Witness ==
    /\ call.fn = "calculate_crc8" /\ pc = "done"
    /\ call.data = <<1>>
    /\ ret.val = 7

\* C19 (varint round trip): decode_varint(encode_varint(v)) = v; every byte
\* of the encoding but the last has bit 7 set and the last has it clear;
\* 0..127 take one byte and 128..16383 two.
C19_VarintRoundTrip ==
    (call.fn = "encode_varint" /\ pc = "done") =>
        LET enc == loc.encoded
            v == call.value
        IN  /\ ret.kind = "return"
            /\ ret.val = v
            /\ \A i \in 1 .. (Len(enc) - 1) : And(enc[i], 128) = 128
            /\ And(enc[Len(enc)], 128) = 0
            /\ v <= 127 => Len(enc) = 1
            /\ (128 <= v /\ v <= 16383) => Len(enc) = 2

\* C19 witness: 16384 was encoded in three bytes and decoded back
C19_Witness ==
    /\ call.fn = "encode_varint" /\ pc = "done"
    /\ call.value = 16384
    /\ loc.encoded = <<128, 128, 1>>
    /\ ret.val = 16384

----------------------------------------------------------------------------
(* PacketReceiver: the shape of the state machine *)

\* position k holds the first sync marker of s, the byte that takes a fresh
\* receiver out of WAIT_SYNC
FirstSyncAt(s, k) ==
    /\ s[k] = SYNC
    /\ \A j \in 1 .. (k - 1) : s[j] # SYNC

\* C21 (bounded return to sync): when the machine leaves WAIT_SYNC on 0xAA and
\* the next byte fed is L, it is out of WAIT_SYNC until exactly L + 1 further
\* bytes have been fed and back in WAIT_SYNC then, whatever their values.
C21_BoundedReturn ==
    \A k \in 1 .. (Len(stream) - 1) :
        FirstSyncAt(stream, k) =>
            LET L == stream[k + 1] IN
            /\ (k <= nfed /\ nfed < k + 1 + L + 1) => state # WAIT_SYNC
            /\ nfed = k + 1 + L + 1 => state = WAIT_SYNC

\* C22 (noise dropped byte by byte): in WAIT_SYNC, feed(b) with b # 0xAA
\* leaves state, length, accumulator and queue unchanged; feed(0xAA) makes the
\* accumulator [0xAA], moves to WAIT_LENGTH and leaves the queue unchanged.
C22_NoiseDropped ==
    [][ \A b \in FeedBytes :
          (state = WAIT_SYNC /\ Feed(b)) =>
              IF b # SYNC
              THEN UNCHANGED <<state, length, data, packets>>
              ELSE /\ data' = <<SYNC>>
                   /\ state' = WAIT_LENGTH
                   /\ UNCHANGED packets
      ]_vars

\* C22 witness: six bytes were fed, a frame of four and a noise byte among
\* them; the sixth, a sync byte, started a frame and left the queue untouched
C22_Witness ==
    /\ nfed = 6
    /\ lastOp = "feed"
    /\ state = WAIT_LENGTH
    /\ data = <<SYNC>>
    /\ Len(packets) = 1
    /\ length = 1

\* C23 (state/accumulator consistency): WAIT_LENGTH implies the accumulator
\* is [0xAA]; WAIT_DATA implies accumulator[0] = 0xAA, accumulator[1] = length
\* and 2 <= len < length + 2; WAIT_CRC implies the same two bytes and
\* len = length + 2.
C23_Consistency ==
    /\ state = WAIT_LENGTH => data = <<SYNC>>
    /\ state = WAIT_DATA =>
          /\ 2 <= Len(data)
          /\ data[1] = SYNC
          /\ data[2] = length
          /\ Len(data) < length + 2
    /\ state = WAIT_CRC =>
          /\ Len(data) = length + 2
          /\ data[1] = SYNC
          /\ data[2] = length

----------------------------------------------------------------------------
(* SpecBuilt: frame = build_packet(cmd, payload), then
   `for byte in frame: receiver.feed(byte)` on a fresh receiver, then
   get_packets() *)

\* the longest payload whose length + 1 fits the length byte
LongPayload == [i \in 1 .. (MaxLength - 1) |-> SYNC]

FrameCalls ==
    BuildCalls
      \cup {[fn |-> "build_packet", cmd |-> c, payload |-> LongPayload] :
               c \in CmdBytes}

InitBuilt ==
    /\ RxIdle
    /\ NoInstances
    /\ call \in FrameCalls
    /\ pc = "start"
    /\ loc = <<>>
    /\ ret = Pending
    /\ env = <<>>

\* receiver.feed(byte) for the next byte of the built frame
FeedPacket ==
    /\ call.fn = "build_packet" /\ pc = "built"
    /\ nfed < Len(loc.packet)
    /\ Feed(loc.packet[nfed + 1])

\* receiver.get_packets() once the whole frame was fed
DrainPacket ==
    /\ call.fn = "build_packet" /\ pc = "built"
    /\ nfed = Len(loc.packet)
    /\ lastOp # "get_packets"
    /\ GetPackets

NextBuilt ==
    \/ BuildPacket
    \/ FeedPacket
    \/ DrainPacket

SpecBuilt == InitBuilt /\ [][NextBuilt]_vars

\* C24 (encoder-to-framer round trip): feeding the bytes of
\* build_packet(cmd, payload), payload of 0..254 bytes, to a fresh receiver
\* and draining yields exactly one frame, equal to those bytes, and the
\* machine is back in WAIT_SYNC; nothing is queued before the last byte.
C24_BuiltFrameReceived ==
    (pc = "built" /\ call.fn = "build_packet") =>
        /\ loc.packet = build_packet(call.cmd, call.payload).val
        /\ Len(loc.packet) = Len(call.payload) + 4
        /\ nfed < Len(loc.packet) => (packets = <<>> /\ completed = <<>>)
        /\ (nfed = Len(loc.packet) /\ lastOp = "feed") =>
              (packets = <<loc.packet>> /\ state = WAIT_SYNC)
        /\ (nfed = Len(loc.packet) /\ lastOp = "get_packets") =>
              /\ out = <<loc.packet>>
              /\ drained = <<loc.packet>>
              /\ packets = <<>>
              /\ state = WAIT_SYNC

\* C24 witness: the frame of a 254-byte payload, 258 bytes, was fed and drained
C24_Witness ==
    /\ pc = "built" /\ call.fn = "build_packet"
    /\ call.payload = LongPayload
    /\ lastOp = "get_packets"
    /\ Len(out) = 1
    /\ Len(out[1]) = MaxLength + 3

====
